---- MODULE Spec2Model ----
(***************************************************************************)
(* Wireworld (src/src/main.rs): the board, the set of positions to         *)
(* re-evaluate (updates), the incremental generation step and the frame    *)
(* loop that uploads changed pixels, handles input and ticks.              *)
(***************************************************************************)
EXTENDS Integers, FiniteSets

\* ------------------------------------------------------------------ bounds
\* Largest width and height given to Wireworld::new, and the number of
\* mouse edits explored in one run.
MaxWidth == 3
MaxHeight == 2
MaxEdits == 3
\* ... and in one run of the frame loop
MaxFrameEdits == 2
\* ... and in one run that follows the loop of next_generation visit by
\* visit, with the largest width and height of those runs
MaxLoopEdits == 2
MaxLoopWidth == 2
MaxLoopHeight == 2

\* ------------------------------------------------------------------- cells
Empty == "Empty"
Head == "Head"
Tail == "Tail"
Conductor == "Conductor"
Cell == {Empty, Head, Tail, Conductor}

\* Cell::get_cell_color
get_cell_color(cell) ==
    CASE cell = Empty -> "BLACK"
      [] cell = Head -> "BLUE"
      [] cell = Tail -> "RED"
      [] cell = Conductor -> "YELLOW"

\* ------------------------------------------------------------------- state
VARIABLES
    board,            \* board[y][x]: Vec<Vec<Cell>>
    width,
    height,
    updates,          \* HashSet<(usize, usize)> of <<x, y>>
    paused,
    board_image,      \* board_image[y][x]: the colour of pixel (x, y)
    overflow_checks,  \* the build profile: TRUE when usize overflow panics
    status,           \* "running", or "panicked" once a call has panicked
    last,             \* the call that produced this state
    pc,               \* position inside update(): "upload", "input", "tick"
    edits,            \* mouse edits applied so far
    drained_board,    \* the board as it was when update() last looped over updates
    next_board,       \* next_generation's local next_board, <<>> outside the call
    next_updates,     \* next_generation's local next_updates
    todo              \* positions of updates its for loop has yet to visit

loop_vars == <<next_board, next_updates, todo>>

vars == <<board, width, height, updates, paused, board_image,
          overflow_checks, status, last, pc, edits, drained_board,
          next_board, next_updates, todo>>

\* usize::MAX, as far as TLC's integers reach: the program only compares it
\* with coordinates of the board, which it exceeds either way.
UsizeMax == 2147483647

\* usize subtraction as the release profile computes it (wrapping)
UsizeSub(a, b) == IF a >= b THEN a - b ELSE UsizeMax - (b - a) + 1

Min(a, b) == IF a <= b THEN a ELSE b
Max(a, b) == IF a >= b THEN a ELSE b

Xs == 0 .. (width - 1)
Ys == 0 .. (height - 1)
Positions == {<<x, y>> : x \in Xs, y \in Ys}

\* --------------------------------------------------------- Wireworld::new
\* new(width, height): no validation; every cell Empty, no updates, image
\* black, not paused.
\* mutant: the two dimensions of the board swapped
new_swapped(w, h) ==
    /\ width = w
    /\ height = h
    /\ board = [y \in 0 .. (w - 1) |-> [x \in 0 .. (h - 1) |-> Empty]]
    /\ updates = {}
    /\ paused = FALSE
    /\ board_image = [y \in 0 .. (h - 1) |-> [x \in 0 .. (w - 1) |-> "BLACK"]]
    /\ status = "running"
    /\ last = "new"
    /\ pc = "upload"
    /\ edits = 0
    /\ drained_board = board
    /\ next_board = <<>>
    /\ next_updates = {}
    /\ todo = {}

new(w, h) ==
    /\ width = w
    /\ height = h
    /\ board = [y \in 0 .. (h - 1) |-> [x \in 0 .. (w - 1) |-> Empty]]
    /\ updates = {}
    /\ paused = FALSE
    /\ board_image = [y \in 0 .. (h - 1) |-> [x \in 0 .. (w - 1) |-> "BLACK"]]
    /\ status = "running"
    /\ last = "new"
    /\ pc = "upload"
    /\ edits = 0
    /\ drained_board = board
    /\ next_board = <<>>
    /\ next_updates = {}
    /\ todo = {}

Init ==
    /\ overflow_checks \in BOOLEAN
    /\ \E w \in 0 .. MaxWidth, h \in 0 .. MaxHeight : new(w, h)

\* ------------------------------------------------ Wireworld::next_state
Panic == "panic"

\* the range of the neighbour loops of next_state (lines 118-119)
StateRange(i, size) ==
    (IF i = 0 THEN 0 ELSE i - 1) ..
    (IF i > UsizeSub(size, 2) THEN UsizeSub(size, 1) ELSE i + 1)

\* number of Head cells the neighbour loops count (the cell itself included
\* in the loops; it is a Conductor there)
neighbour_head(x, y) ==
    Cardinality({p \in StateRange(x, width) \X StateRange(y, height) :
                    board[p[2]][p[1]] = Head})

\* next_state(x, y): the next cell, or Panic when the call panics: an index
\* outside the board, or `size - 2` overflowing under overflow checks.
next_state(x, y) ==
    IF ~(y \in DOMAIN board /\ x \in DOMAIN board[y]) THEN Panic
    ELSE LET cell == board[y][x] IN
         CASE cell = Empty -> Empty
           [] cell = Head -> Tail
           [] cell = Tail -> Conductor
           [] cell = Conductor ->
                IF overflow_checks /\ (height < 2 \/ width < 2) THEN Panic
                ELSE IF \E c_y \in StateRange(y, height), c_x \in StateRange(x, width) :
                           ~(c_y \in DOMAIN board /\ c_x \in DOMAIN board[c_y])
                     THEN Panic
                ELSE IF neighbour_head(x, y) \in {1, 2} THEN Head ELSE Conductor

\* the positions inserted around (x, y) by insert_cell and next_generation:
\* ((x as isize - 1).max(0) as usize)..=(x + 1).min(self.width - 1), same for y
\* mutant: only the position itself, its neighbours forgotten
Around_self(x, y) == {<<x, y>>}

\* mutant: the ranges not clamped to the board
Around_unclamped(x, y) ==
    {<<n_x, n_y>> : n_x \in (x - 1) .. (x + 1), n_y \in (y - 1) .. (y + 1)}

Around(x, y) ==
    {<<n_x, n_y>> : n_x \in Max(x - 1, 0) .. Min(x + 1, width - 1),
                    n_y \in Max(y - 1, 0) .. Min(y + 1, height - 1)}

\* ----------------------------------------------- Wireworld::insert_cell
insert_cell(cell, x, y) ==
    /\ board' = [board EXCEPT ![y][x] = cell]
    /\ updates' = updates \cup {<<x, y>>} \cup Around(x, y)

\* ------------------------------------------ Wireworld::handle_mouse_input
\* button: "Left" (Conductor), "Right" (Empty), "Middle" (Head); board_x,
\* board_y: the mouse position in board space (isize). Out of the board the
\* click is discarded.
ButtonCell(button) ==
    CASE button = "Left" -> Conductor
      [] button = "Right" -> Empty
      [] button = "Middle" -> Head

\* mutant: the upper bounds compared with <= instead of <
InBoard_inclusive(board_x, board_y) ==
    board_x >= 0 /\ board_x <= width /\ board_y >= 0 /\ board_y <= height

InBoard(board_x, board_y) ==
    board_x >= 0 /\ board_x < width /\ board_y >= 0 /\ board_y < height

handle_mouse_input(button, board_x, board_y) ==
    IF InBoard(board_x, board_y)
    THEN /\ insert_cell(ButtonCell(button), board_x, board_y)
         /\ last' = "insert_cell"
    ELSE /\ UNCHANGED <<board, updates>>
         /\ last' = "discarded"

\* -------------------------------------------- Wireworld::next_generation
\* the positions of updates whose next state differs from the board
Changed == {pos \in updates : next_state(pos[1], pos[2]) # board[pos[2]][pos[1]]}

\* mutant: the whole board recomputed and updates cleared, no incremental set
next_generation_full ==
    IF \E pos \in Positions : next_state(pos[1], pos[2]) = Panic
    THEN /\ status' = "panicked"
         /\ last' = "panic"
         /\ UNCHANGED <<board, updates>>
    ELSE /\ board' = [y \in Ys |-> [x \in Xs |-> next_state(x, y)]]
         /\ updates' = {}
         /\ last' = "next_generation"
         /\ UNCHANGED status

\* (a position of updates whose next state equals its cell is written with
\* the value it holds, which is the board left as it is there)
next_generation ==
    IF \E pos \in updates : next_state(pos[1], pos[2]) = Panic
    THEN /\ status' = "panicked"
         /\ last' = "panic"
         /\ UNCHANGED <<board, updates>>
    ELSE /\ board' = [y \in Ys |-> [x \in Xs |->
                        IF <<x, y>> \in updates THEN next_state(x, y) ELSE board[y][x]]]
         /\ updates' = Changed \cup UNION {Around(pos[1], pos[2]) : pos \in Changed}
         /\ last' = "next_generation"
         /\ UNCHANGED status

\* --------------------------------------------------- the engine's calls
\* Mouse positions tried, in board space: every board position, and outside
\* the board one step before the first and one step past the last index of
\* each axis.
MousePositions ==
    Positions \cup {<<-1, 0>>, <<width, 0>>, <<0, -1>>, <<0, height>>,
                    <<-1, -1>>, <<width, height>>}
Buttons == {"Left", "Right", "Middle"}

Edit ==
    /\ status = "running"
    /\ edits < MaxEdits
    /\ \E button \in Buttons, pos \in MousePositions :
          handle_mouse_input(button, pos[1], pos[2])
    /\ edits' = edits + 1
    /\ UNCHANGED <<width, height, paused, board_image, overflow_checks, status, pc,
                   drained_board, loop_vars>>

Step ==
    /\ status = "running"
    /\ next_generation
    /\ UNCHANGED <<width, height, paused, board_image, overflow_checks, pc, edits,
                   drained_board, loop_vars>>

Next == Edit \/ Step

Spec == Init /\ [][Next]_vars

\* ------------------------------------------------------ Wireworld::update
\* update() in its three phases, in program order: the loop that uploads the
\* pixels of updates, handle_input, and the timed call of next_generation.

\* lines 283-291: every position of updates gets the colour of its cell
Upload ==
    /\ status = "running"
    /\ pc = "upload"
    /\ board_image' = [y \in Ys |-> [x \in Xs |->
                          IF <<x, y>> \in updates THEN get_cell_color(board[y][x])
                          ELSE board_image[y][x]]]
    /\ drained_board' = board
    /\ last' = "upload"
    /\ pc' = "input"
    /\ UNCHANGED <<board, width, height, updates, paused, overflow_checks, status, edits,
                   loop_vars>>

\* handle_input: the mouse (at most one button acts), then Space toggles
\* paused. Panning and zooming only move the viewport.
handle_input(button, board_x, board_y, space) ==
    /\ IF button = "None"
       THEN UNCHANGED <<board, updates>> /\ last' = "no_input"
       ELSE handle_mouse_input(button, board_x, board_y)
    /\ paused' = IF space THEN ~paused ELSE paused

HandleInput ==
    /\ status = "running"
    /\ pc = "input"
    /\ \E button \in Buttons \cup {"None"}, pos \in MousePositions, space \in BOOLEAN :
          /\ button # "None" => edits < MaxFrameEdits
          /\ handle_input(button, pos[1], pos[2], space)
          /\ edits' = IF button = "None" THEN edits ELSE edits + 1
    /\ pc' = "tick"
    /\ UNCHANGED <<width, height, board_image, overflow_checks, status, drained_board,
                   loop_vars>>

\* mutant: the tick not gated by paused
Tick_ungated ==
    /\ status = "running"
    /\ pc = "tick"
    /\ \E due \in BOOLEAN :
          IF due
          THEN next_generation
          ELSE UNCHANGED <<board, updates, status>> /\ last' = "no_tick"
    /\ pc' = "upload"
    /\ UNCHANGED <<width, height, paused, board_image, overflow_checks, edits,
                   drained_board, loop_vars>>

\* lines 295-298: due says whether FPS_TIME has elapsed since the last tick
Tick ==
    /\ status = "running"
    /\ pc = "tick"
    /\ \E due \in BOOLEAN :
          IF due /\ ~paused
          THEN next_generation
          ELSE UNCHANGED <<board, updates, status>> /\ last' = "no_tick"
    /\ pc' = "upload"
    /\ UNCHANGED <<width, height, paused, board_image, overflow_checks, edits,
                   drained_board, loop_vars>>

FrameNext == Upload \/ HandleInput \/ Tick

FrameSpec == Init /\ [][FrameNext]_vars

\* ------------------------------- Wireworld::next_generation, visit by visit
\* The call followed through its for loop: the HashSet yields the positions
\* of updates in an order of its own, one position per visit.
frame_vars == <<width, height, paused, board_image, overflow_checks, edits, drained_board>>

\* an edit between two calls, the mouse on a position of the board
LoopEdit ==
    /\ status = "running"
    /\ pc # "loop"
    /\ edits < MaxLoopEdits
    /\ \E button \in Buttons, pos \in Positions :
          handle_mouse_input(button, pos[1], pos[2])
    /\ edits' = edits + 1
    /\ UNCHANGED <<width, height, paused, board_image, overflow_checks, status, pc,
                   drained_board, loop_vars>>

\* lines 84-85: the clone of the board and the empty set
LoopBegin ==
    /\ status = "running"
    /\ pc # "loop"
    /\ next_board' = board
    /\ next_updates' = {}
    /\ todo' = updates
    /\ pc' = "loop"
    /\ last' = "loop"
    /\ UNCHANGED <<board, updates, status, frame_vars>>

\* mutant: the new cell written into the board itself during the loop
visit_in_place(pos) ==
    LET cell_next == next_state(pos[1], pos[2]) IN
    /\ IF cell_next # next_board[pos[2]][pos[1]]
       THEN /\ next_board' = [next_board EXCEPT ![pos[2]][pos[1]] = cell_next]
            /\ board' = [board EXCEPT ![pos[2]][pos[1]] = cell_next]
            /\ next_updates' = next_updates \cup {pos} \cup Around(pos[1], pos[2])
       ELSE UNCHANGED <<next_board, next_updates, board>>
    /\ todo' = todo \ {pos}
    /\ UNCHANGED <<updates, status, last, pc>>

\* one visit of the loop body (lines 88-97) that does not panic
visit(pos) ==
    LET cell_next == next_state(pos[1], pos[2]) IN
    /\ IF cell_next # next_board[pos[2]][pos[1]]
       THEN /\ next_board' = [next_board EXCEPT ![pos[2]][pos[1]] = cell_next]
            /\ next_updates' = next_updates \cup {pos} \cup Around(pos[1], pos[2])
       ELSE UNCHANGED <<next_board, next_updates>>
    /\ todo' = todo \ {pos}
    /\ UNCHANGED <<board, updates, status, last, pc>>

\* the loop body at one position: next_state panics and the call unwinds,
\* its locals dropped, or the visit is made
LoopBody(pos) ==
    IF next_state(pos[1], pos[2]) = Panic
    THEN /\ status' = "panicked"
         /\ last' = "panic"
         /\ pc' = "upload"
         /\ next_board' = <<>>
         /\ next_updates' = {}
         /\ todo' = {}
         /\ UNCHANGED <<board, updates>>
    ELSE visit(pos)

LoopVisit ==
    /\ status = "running"
    /\ pc = "loop"
    /\ \E pos \in todo : LoopBody(pos)
    /\ UNCHANGED frame_vars

\* lines 100-101: the locals become the board and updates
LoopEnd ==
    /\ status = "running"
    /\ pc = "loop"
    /\ todo = {}
    /\ board' = next_board
    /\ updates' = next_updates
    /\ last' = "next_generation"
    /\ pc' = "upload"
    /\ next_board' = <<>>
    /\ next_updates' = {}
    /\ todo' = {}
    /\ UNCHANGED <<status, frame_vars>>

LoopNext == LoopEdit \/ LoopBegin \/ LoopVisit \/ LoopEnd

LoopInit == Init /\ width <= MaxLoopWidth /\ height <= MaxLoopHeight

LoopSpec == LoopInit /\ [][LoopNext]_vars

\* ================================================================ claims
\* The transition rule as the claims state it: the Moore neighbours inside
\* the board, a Conductor turning Head with 1 or 2 Head neighbours.
MooreNeighbours(x, y) ==
    {p \in Positions : /\ p # <<x, y>>
                       /\ p[1] - x \in {-1, 0, 1}
                       /\ p[2] - y \in {-1, 0, 1}}

HeadNeighbours(x, y) ==
    Cardinality({p \in MooreNeighbours(x, y) : board[p[2]][p[1]] = Head})

nextState(x, y) ==
    LET cell == board[y][x] IN
    CASE cell = Empty -> Empty
      [] cell = Head -> Tail
      [] cell = Tail -> Conductor
      [] cell = Conductor ->
           IF HeadNeighbours(x, y) \in {1, 2} THEN Head ELSE Conductor

\* the reference: nextState recomputed for every coordinate of the board
FullRecompute == [y \in Ys |-> [x \in Xs |-> nextState(x, y)]]

\* a call of next_generation that ran to its end
StepCompleted == Step /\ last' = "next_generation"

\* C1: after every step() the board equals the brute-force recomputation of
\* the whole board from the board before the step.
C1_Equivalence == [][Step => board' = FullRecompute]_vars

\* C1, on the steps that run to their end: the incremental result is the
\* brute-force result.
C1_EquivalenceOfCompletedSteps == [][StepCompleted => board' = FullRecompute]_vars

\* C2: every cell that is Head before a step() is Tail after it, and every
\* cell that is Tail before a step() is Conductor after it.
C2_UnconditionalDecay ==
    [][Step => \A p \in Positions :
                  /\ board[p[2]][p[1]] = Head => board'[p[2]][p[1]] = Tail
                  /\ board[p[2]][p[1]] = Tail => board'[p[2]][p[1]] = Conductor]_vars

\* C2, on the steps that run to their end.
C2_DecayOfCompletedSteps ==
    [][StepCompleted => \A p \in Positions :
                  /\ board[p[2]][p[1]] = Head => board'[p[2]][p[1]] = Tail
                  /\ board[p[2]][p[1]] = Tail => board'[p[2]][p[1]] = Conductor]_vars

\* the one row of a board of width 3 and height 1
IsRow(b, c0, c1, c2) ==
    /\ width = 3 /\ height = 1
    /\ b[0][0] = c0 /\ b[0][1] = c1 /\ b[0][2] = c2

\* C3: on a 3 x 1 board edited to [Head, Conductor, Empty] the first step()
\* yields [Tail, Head, Empty] and the second yields [Conductor, Tail, Empty].
C3_PulseOnOneRow ==
    [][Step =>
         /\ IsRow(board, Head, Conductor, Empty) => IsRow(board', Tail, Head, Empty)
         /\ (last = "next_generation" /\ IsRow(board, Tail, Head, Empty))
               => IsRow(board', Conductor, Tail, Empty)]_vars

\* C4: an engine of width >= 1 and height >= 1 never panics in step().
C4_StepCannotFail == (width >= 1 /\ height >= 1) => status = "running"

OutOfBoard(board_x, board_y) ==
    board_x < 0 \/ board_x >= width \/ board_y < 0 \/ board_y >= height

AllEmpty ==
    /\ DOMAIN board = 0 .. (height - 1)
    /\ \A y \in DOMAIN board :
          /\ DOMAIN board[y] = 0 .. (width - 1)
          /\ \A x \in DOMAIN board[y] : board[y][x] = Empty

C7_QuiescentStep ==
    [][(updates = {} /\ Step) => (board' = board /\ updates' = {} /\ status' = status)]_vars

\* C7 witness: a step has run, updates is empty and the board holds a
\* Conductor: the step taken from this state leads back to it.
C7_SteppedQuiescentBoard ==
    /\ last = "next_generation"
    /\ updates = {}
    /\ \E p \in Positions : board[p[2]][p[1]] = Conductor

\* one Conductor, every other cell Empty
OneConductor ==
    \E p \in Positions :
        /\ board[p[2]][p[1]] = Conductor
        /\ \A q \in Positions \ {p} : board[q[2]][q[1]] = Empty

\* C8: after a single edit of one cell of an all-Empty board to Conductor,
\* every step() leaves the board as it is, the Conductor included, and
\* leaves updates empty.
C8_EditThenQuiescence ==
    [][(edits = 1 /\ OneConductor /\ Step) => (board' = board /\ updates' = {})]_vars

\* C8, on the steps that run to their end.
C8_QuiescenceOfCompletedSteps ==
    [][(edits = 1 /\ OneConductor /\ StepCompleted)
          => (board' = board /\ updates' = {})]_vars

\* the coordinates whose cell differs from what it was at the last drain
ChangedSinceDrain == {p \in Positions : board[p[2]][p[1]] # drained_board[p[2]][p[1]]}

\* C9: each time update() drains updates, the coordinates it produces are
\* exactly those whose cell differs from what it was at the previous drain.
C9_ChangeFeed == [][Upload => updates = ChangedSinceDrain]_vars

\* C9, one direction: no coordinate that changed since the previous drain is
\* missing from the drained coordinates.
C9_NoChangeMissed == [][Upload => ChangedSinceDrain \subseteq updates]_vars

\* C10: every coordinate whose nextState differs from its cell (a Head, a
\* Tail, a Conductor with 1 or 2 Head neighbours) is in updates.
C10_NeverUnderApproximates ==
    \A p \in Positions : nextState(p[1], p[2]) # board[p[2]][p[1]] => p \in updates

\* C10 witness: after a step, a Conductor with 1 or 2 Head neighbours, a Head
\* and a Tail are all on the board (and in updates).
C10_PendingCells ==
    /\ last = "next_generation"
    /\ \E p \in Positions : board[p[2]][p[1]] = Conductor /\ HeadNeighbours(p[1], p[2]) \in {1, 2}
                             /\ p \in updates
    /\ \E p \in Positions : board[p[2]][p[1]] = Tail /\ p \in updates

\* the coordinate and its Moore neighbours inside the board
Neighbourhood(p) == {p} \cup MooreNeighbours(p[1], p[2])

\* C11: after step() updates is exactly the union, over the positions of the
\* old updates whose cell changed in the step, of the position and its
\* in-board Moore neighbours; nothing else of the old updates is kept.
C11_Reseeding ==
    [][Step => updates' = UNION {Neighbourhood(p) :
                  p \in {q \in updates : board'[q[2]][q[1]] # board[q[2]][q[1]]}}]_vars

\* C11, on the steps that run to their end.
C11_ReseedingOfCompletedSteps ==
    [][StepCompleted => updates' = UNION {Neighbourhood(p) :
                  p \in {q \in updates : board'[q[2]][q[1]] # board[q[2]][q[1]]}}]_vars

\* C12: an edit inside the board writes the cell at (x, y), leaves every
\* other cell as it was and adds (x, y) and its in-board Moore neighbours to
\* updates, also when the cell written is the cell already there.
C12_EffectOfEdit ==
    [][\A button \in Buttons, pos \in Positions :
          handle_mouse_input(button, pos[1], pos[2]) =>
             /\ board'[pos[2]][pos[1]] = ButtonCell(button)
             /\ \A q \in Positions \ {pos} : board'[q[2]][q[1]] = board[q[2]][q[1]]
             /\ DOMAIN board' = DOMAIN board
             /\ updates' = updates \cup Neighbourhood(pos)]_vars

\* C12 witness: the one edit so far wrote Empty over Empty and seeded updates.
C12_SameValueEdit ==
    /\ last = "insert_cell"
    /\ edits = 1
    /\ \A p \in Positions : board[p[2]][p[1]] = Empty
    /\ updates # {}

\* C13: a step leaves every cell outside updates as it was, and the
\* dimensions of the board as they were.
C13_FrameOfStep ==
    [][Step =>
         /\ \A p \in Positions \ updates : board'[p[2]][p[1]] = board[p[2]][p[1]]
         /\ width' = width /\ height' = height
         /\ DOMAIN board' = DOMAIN board
         /\ \A y \in DOMAIN board : DOMAIN board'[y] = DOMAIN board[y]]_vars

\* C13 witness: after a step, a Conductor lies outside updates while a Tail
\* inside updates is due to change: the next step changes the one and must
\* leave the other.
C13_CellOutsideUpdates ==
    /\ last = "next_generation"
    /\ \E p \in Positions \ updates : board[p[2]][p[1]] = Conductor
    /\ \E p \in updates : board[p[2]][p[1]] = Tail

\* C15: for every board and every coordinate inside it next_state returns
\* Empty for Empty, Tail for Head, Conductor for Tail, and for a Conductor
\* Head exactly when 1 or 2 of its in-board Moore neighbours are Head.
C15_TransitionRule ==
    \A p \in Positions : next_state(p[1], p[2]) = nextState(p[1], p[2])

\* C15, on boards at least 2 cells wide and 2 cells high.
C15_RuleOnBoardsOfTwoOrMore ==
    (width >= 2 /\ height >= 2) =>
        \A p \in Positions : next_state(p[1], p[2]) = nextState(p[1], p[2])

C16_PauseGating ==
    [][/\ (Tick /\ paused) =>
            (board' = board /\ updates' = updates /\ status' = status /\ last' = "no_tick")
       /\ (paused /\ paused') =>
            /\ updates \subseteq updates'
            /\ board' # board => last' = "insert_cell"]_vars

\* C16 witness: a frame has ended paused without a tick, with a Head, put
\* there by an edit, waiting in updates.
C16_PausedWithPendingHead ==
    /\ paused
    /\ last = "no_tick"
    /\ \E p \in updates : board[p[2]][p[1]] = Head

\* C17: right after the upload loop of update() every pixel of the image
\* shows the colour of the cell at its coordinate.
C17_ImageFollowsBoard ==
    last = "upload" =>
        \A p \in Positions : board_image[p[2]][p[1]] = get_cell_color(board[p[2]][p[1]])

\* C14: in one call of next_generation every visit reads the board as it was
\* before the call, so that whatever the order of the visits the call ends
\* with the same board and the same updates (or the same panic), those the
\* state before the call determines: two engines given the same edits and
\* steps end alike.
\* (A step from inside the loop to inside the loop is a visit; a step that
\* leaves the loop is the end of the call, or the visit that panics.)
C14_SnapshotConsistency ==
    [][/\ (pc = "loop" /\ pc' = "loop") => (board' = board /\ updates' = updates)
       /\ (pc = "loop" /\ pc' # "loop") => next_generation]_vars

\* C14 witness: a call has ended with a Head next to a Tail: a Conductor was
\* visited next to a Head that the same call turned into a Tail.
C14_HeadBesideTail ==
    /\ last = "next_generation"
    /\ pc # "loop"
    /\ \E p \in Positions : /\ board[p[2]][p[1]] = Head
                             /\ \E q \in MooreNeighbours(p[1], p[2]) : board[q[2]][q[1]] = Tail

====
